---- MODULE Spec2Model ----
(***************************************************************************)
(* The three "top-N over a directory tree" tools of src/files:             *)
(*   topcounts.py  get_dir_counts    (files per directory)                 *)
(*   topdirs.py    get_dir_sizes     (MB of the direct files per directory)*)
(*   topfiles.py   find_large_files + get_top_n   (MB per file)            *)
(*                                                                         *)
(* A measurement is the Python tuple (metric, path), written <<m, p>>.     *)
(* Sizes in MB are the floats size_bytes / (1024 * 1024); the division by  *)
(* 2^20 is exact, so a size in MB is held as its numerator over the fixed  *)
(* denominator MB: the value 1.0 is held as MB, 0.0 as 0.                  *)
(***************************************************************************)
EXTENDS Integers, Sequences, FiniteSets, TLC

\* bounds of the explored inputs
MaxDirs == 2
MaxFiles == 3
MaxK == 3

\* 1024 * 1024, the bytes of one MB
MB == 1048576

\* MIN_FILE_SIZE = 1.0, over the denominator MB
MIN_FILE_SIZE == 1 * MB

\* sizes os.path.getsize may report: just below the floor, the floor, above
StatSizes == {MB - 1, MB, 2 * MB}

NoStat == [kind |-> "none", bytes |-> 0]

\* what one os.path.getsize call does: return a size, raise
\* FileNotFoundError ("vanished"), or raise another OSError ("denied")
StatOutcomes ==
  [kind : {"ok"}, bytes : StatSizes]
    \cup {[kind |-> "vanished", bytes |-> 0], [kind |-> "denied", bytes |-> 0]}

\* num_dirs / max_files as int(sys.argv[1]) can deliver them
KValues == (-1) .. MaxK

VARIABLES
  tool,        \* which script runs: "counts", "sizes" or "files"
  K,           \* num_dirs / max_files / num_files
  startExists, \* whether start_dir exists
  parent,      \* the directory tree: parent[d] of directory d, 0 for start_dir
  dirOf,       \* the directory each file is directly inside
  pc,          \* "main", "walk", "inner", "returned", "done", "crashed"
  walkPos,     \* how many directories os.walk has yielded
  root,        \* the loop variable root
  pending,     \* the filenames of root the inner loop has not reached yet
  size,        \* the local size of get_dir_sizes
  counts,      \* the list counts of get_dir_counts
  sizes,       \* the list sizes of get_dir_sizes
  files,       \* the list files of find_large_files / get_top_n
  result,      \* the list the tool ranks and prints
  statted,     \* history: the outcome of the getsize call on each file
  offered      \* history: the measurements appended, in order

vars == <<tool, K, startExists, parent, dirOf, pc, walkPos, root, pending,
          size, counts, sizes, files, result, statted, offered>>

----------------------------------------------------------------------------
\* Sequences and lists

Min(a, b) == IF a < b THEN a ELSE b

Max(a, b) == IF a > b THEN a ELSE b

Range(xs) == {xs[i] : i \in 1 .. Len(xs)}

\* the elements of a finite set of integers in ascending order
RECURSIVE SetToSeq(_)
SetToSeq(S) ==
  IF S = {} THEN <<>>
  ELSE LET m == CHOOSE x \in S : \A y \in S : x <= y
       IN <<m>> \o SetToSeq(S \ {m})

RECURSIVE Concat(_)
Concat(ss) == IF ss = <<>> THEN <<>> ELSE Head(ss) \o Concat(Tail(ss))

\* key=lambda f: f[0]
Key(f) == f[1]

\* the place list.sort gives e among already sorted xs: sorting is stable,
\* also under reverse=True, so e goes behind every element whose key is >= its own
RECURSIVE InsertDescUnstable(_, _)
InsertDescUnstable(xs, e) ==
  IF xs = <<>> THEN <<e>>
  ELSE IF Key(Head(xs)) > Key(e)
       THEN <<Head(xs)>> \o InsertDescUnstable(Tail(xs), e)
       ELSE <<e>> \o xs

RECURSIVE InsertDesc(_, _)
InsertDesc(xs, e) ==
  IF xs = <<>> THEN <<e>>
  ELSE IF Key(Head(xs)) >= Key(e)
       THEN <<Head(xs)>> \o InsertDesc(Tail(xs), e)
       ELSE <<e>> \o xs

SortNone(xs) == xs

\* xs.sort(key=lambda f: f[0], reverse=True)
RECURSIVE SortDesc(_)
SortDesc(xs) ==
  IF xs = <<>> THEN <<>>
  ELSE InsertDesc(SortDesc(SubSeq(xs, 1, Len(xs) - 1)), xs[Len(xs)])

SliceOneMore(xs, n) ==
  IF n >= 0 THEN SubSeq(xs, 1, Min(n + 1, Len(xs)))
  ELSE SubSeq(xs, 1, Max(Len(xs) + n + 1, 0))

\* xs[:n], a negative n counting from the end
Slice(xs, n) ==
  IF n >= 0 THEN SubSeq(xs, 1, Min(n, Len(xs)))
  ELSE SubSeq(xs, 1, Max(Len(xs) + n, 0))

----------------------------------------------------------------------------
\* The directory tree and os.walk

Dirs == DOMAIN parent

Files == DOMAIN dirOf

\* the subdirectories of d, in listing order
Children(d) == SetToSeq({c \in Dirs : parent[c] = d})

\* the filenames directly inside d, in listing order
Filenames(d) == SetToSeq({f \in Files : dirOf[f] = d})

\* os.walk(start_dir), top-down: a directory before its subdirectories
RECURSIVE PreOrder(_)
PreOrder(d) ==
  <<d>> \o Concat([i \in 1 .. Len(Children(d)) |-> PreOrder(Children(d)[i])])

\* os.walk yields nothing when start_dir cannot be listed (onerror is None)
Walk == IF startExists THEN PreOrder(1) ELSE <<>>

\* os.path.join(root, filename)
Join(r, filename) == <<r, filename>>

----------------------------------------------------------------------------
\* The loop bodies

\* topcounts.py lines 14-16 and topdirs.py lines 20-22
AppendSortTruncate(list, m, n) == Slice(SortDesc(Append(list, m)), n)

SizeAfterStatReset(sz, o) ==
  IF o.kind = "ok" THEN sz + o.bytes ELSE 0

\* topdirs.py lines 15-18: size += getsize / MB, a vanished file passed over
SizeAfterStat(sz, o) ==
  IF o.kind = "ok" THEN sz + o.bytes ELSE sz

FindLargeFilesAppendNoFloor(list, file_path, size_bytes) ==
  LET size_mb == size_bytes
  IN Append(list, <<size_mb, file_path>>)

\* topfiles.py lines 19-22: size_mb = size_bytes / MB, appended from the floor up
FindLargeFilesAppend(list, file_path, size_bytes) ==
  LET size_mb == size_bytes
  IN IF size_mb >= MIN_FILE_SIZE
     THEN Append(list, <<size_mb, file_path>>) ELSE list

FindLargeFilesTrimNoSort(list, n) ==
  IF Len(list) >= n THEN Slice(list, n) ELSE list

\* topfiles.py lines 24-26: sorted and cut only once max_files are held
FindLargeFilesTrim(list, n) ==
  IF Len(list) >= n THEN Slice(SortDesc(list), n) ELSE list

\* the entries a loop body appended to list to give appended
Appended(list, appended) == SubSeq(appended, Len(list) + 1, Len(appended))

----------------------------------------------------------------------------
\* The state machine

\* the trees of at most MaxDirs directories, start_dir being directory 1
TreeShapes ==
  {p \in UNION {[1 .. n -> 0 .. (n - 1)] : n \in 1 .. MaxDirs} :
     \A d \in DOMAIN p : (d = 1 /\ p[d] = 0) \/ (d > 1 /\ p[d] >= 1 /\ p[d] < d)}

\* a tool, its arguments and the tree it is run on; the files are numbered in
\* listing order, directory by directory
Init ==
  /\ tool \in {"counts", "sizes", "files"}
  /\ K \in KValues
  /\ startExists \in BOOLEAN
  /\ parent \in (IF startExists THEN TreeShapes ELSE {<<>>})
  /\ dirOf \in {d \in UNION {[1 .. m -> DOMAIN parent] : m \in 0 .. MaxFiles} :
        \A f \in 1 .. (Len(d) - 1) : d[f] <= d[f + 1]}
  /\ pc = "main"
  /\ walkPos = 0
  /\ root = 0
  /\ pending = <<>>
  /\ size = 0
  /\ counts = <<>>
  /\ sizes = <<>>
  /\ files = <<>>
  /\ result = <<>>
  /\ statted = [f \in 1 .. MaxFiles |-> NoStat]
  /\ offered = <<>>

\* __main__ of each script: no check of num_dirs or start_dir, the function
\* is called and starts with its empty list
Main ==
  /\ pc = "main"
  /\ pc' = "walk"
  /\ UNCHANGED <<tool, K, startExists, parent, dirOf, walkPos, root, pending,
                 size, counts, sizes, files, result, statted, offered>>

\* get_dir_counts: one iteration of the for loop
GetDirCountsIter ==
  /\ tool = "counts" /\ pc = "walk" /\ walkPos < Len(Walk)
  /\ LET r == Walk[walkPos + 1]
         count == Len(Filenames(r))
     IN /\ root' = r
        /\ counts' = AppendSortTruncate(counts, <<count, r>>, K)
        /\ offered' = Append(offered, <<count, r>>)
  /\ walkPos' = walkPos + 1
  /\ UNCHANGED <<tool, K, startExists, parent, dirOf, pc, pending, size,
                 sizes, files, result, statted>>

\* get_dir_counts: return counts, which __main__ prints
GetDirCountsReturn ==
  /\ tool = "counts" /\ pc = "walk" /\ walkPos = Len(Walk)
  /\ result' = counts
  /\ pc' = "done"
  /\ UNCHANGED <<tool, K, startExists, parent, dirOf, walkPos, root, pending,
                 size, counts, sizes, files, statted, offered>>

GetDirSizesEnterNoReset ==
  /\ tool = "sizes" /\ pc = "walk" /\ walkPos < Len(Walk)
  /\ root' = Walk[walkPos + 1]
  /\ walkPos' = walkPos + 1
  /\ pending' = Filenames(Walk[walkPos + 1])
  /\ pc' = "inner"
  /\ UNCHANGED <<tool, K, startExists, parent, dirOf, size, counts, sizes, files,
                 result, statted, offered>>

\* get_dir_sizes: os.walk yields the next directory, size = 0
GetDirSizesEnter ==
  /\ tool = "sizes" /\ pc = "walk" /\ walkPos < Len(Walk)
  /\ root' = Walk[walkPos + 1]
  /\ walkPos' = walkPos + 1
  /\ size' = 0
  /\ pending' = Filenames(Walk[walkPos + 1])
  /\ pc' = "inner"
  /\ UNCHANGED <<tool, K, startExists, parent, dirOf, counts, sizes, files,
                 result, statted, offered>>

\* get_dir_sizes: one iteration of the inner loop; an exception other than
\* FileNotFoundError is not caught and ends the program
GetDirSizesStat ==
  /\ tool = "sizes" /\ pc = "inner" /\ pending # <<>>
  /\ \E o \in StatOutcomes :
       /\ statted' = [statted EXCEPT ![Head(pending)] = o]
       /\ IF o.kind = "denied"
          THEN pc' = "crashed" /\ UNCHANGED size
          ELSE pc' = pc /\ size' = SizeAfterStat(size, o)
  /\ pending' = Tail(pending)
  /\ UNCHANGED <<tool, K, startExists, parent, dirOf, walkPos, root, counts,
                 sizes, files, result, offered>>

\* get_dir_sizes: the inner loop is over, lines 20-22
GetDirSizesOffer ==
  /\ tool = "sizes" /\ pc = "inner" /\ pending = <<>>
  /\ sizes' = AppendSortTruncate(sizes, <<size, root>>, K)
  /\ offered' = Append(offered, <<size, root>>)
  /\ pc' = "walk"
  /\ UNCHANGED <<tool, K, startExists, parent, dirOf, walkPos, root, pending,
                 size, counts, files, result, statted>>

\* get_dir_sizes: return sizes, which __main__ prints
GetDirSizesReturn ==
  /\ tool = "sizes" /\ pc = "walk" /\ walkPos = Len(Walk)
  /\ result' = sizes
  /\ pc' = "done"
  /\ UNCHANGED <<tool, K, startExists, parent, dirOf, walkPos, root, pending,
                 size, counts, sizes, files, statted, offered>>

\* find_large_files: os.walk yields the next directory
FindLargeFilesNextDir ==
  /\ tool = "files" /\ pc = "walk" /\ pending = <<>> /\ walkPos < Len(Walk)
  /\ root' = Walk[walkPos + 1]
  /\ walkPos' = walkPos + 1
  /\ pending' = Filenames(Walk[walkPos + 1])
  /\ UNCHANGED <<tool, K, startExists, parent, dirOf, pc, size, counts, sizes,
                 files, result, statted, offered>>

\* find_large_files: one iteration of the inner loop, lines 15-29
FindLargeFilesStat ==
  /\ tool = "files" /\ pc = "walk" /\ pending # <<>>
  /\ LET file_path == Join(root, Head(pending))
     IN \E o \in StatOutcomes :
          /\ statted' = [statted EXCEPT ![Head(pending)] = o]
          /\ CASE o.kind = "ok" ->
                    LET added == FindLargeFilesAppend(files, file_path, o.bytes)
                    IN /\ files' = FindLargeFilesTrim(added, K)
                       /\ offered' = offered \o Appended(files, added)
                       /\ pc' = pc
               [] o.kind = "vanished" ->
                    /\ pc' = pc
                    /\ UNCHANGED <<files, offered>>
               [] o.kind = "denied" ->
                    /\ pc' = "crashed"
                    /\ UNCHANGED <<files, offered>>
  /\ pending' = Tail(pending)
  /\ UNCHANGED <<tool, K, startExists, parent, dirOf, walkPos, root, size,
                 counts, sizes, result>>

\* find_large_files: return files
FindLargeFilesReturn ==
  /\ tool = "files" /\ pc = "walk" /\ pending = <<>> /\ walkPos = Len(Walk)
  /\ result' = files
  /\ pc' = "returned"
  /\ UNCHANGED <<tool, K, startExists, parent, dirOf, walkPos, root, pending,
                 size, counts, sizes, files, statted, offered>>

GetTopNNoSort ==
  /\ tool = "files" /\ pc = "returned"
  /\ files' = files
  /\ result' = Slice(files, K)
  /\ pc' = "done"
  /\ UNCHANGED <<tool, K, startExists, parent, dirOf, walkPos, root, pending,
                 size, counts, sizes, statted, offered>>

\* get_top_n(files, num_files): sorts the list in place, returns files[:n]
GetTopN ==
  /\ tool = "files" /\ pc = "returned"
  /\ files' = SortDesc(files)
  /\ result' = Slice(SortDesc(files), K)
  /\ pc' = "done"
  /\ UNCHANGED <<tool, K, startExists, parent, dirOf, walkPos, root, pending,
                 size, counts, sizes, statted, offered>>

Next ==
  \/ Main
  \/ GetDirCountsIter
  \/ GetDirCountsReturn
  \/ GetDirSizesEnter
  \/ GetDirSizesStat
  \/ GetDirSizesOffer
  \/ GetDirSizesReturn
  \/ FindLargeFilesNextDir
  \/ FindLargeFilesStat
  \/ FindLargeFilesReturn
  \/ GetTopN

Spec == Init /\ [][Next]_vars

----------------------------------------------------------------------------
\* Vocabulary of the properties

\* the accumulator list of the running tool
Acc ==
  CASE tool = "counts" -> counts
    [] tool = "sizes" -> sizes
    [] tool = "files" -> files

IsSortedDesc(xs) == \A i \in 1 .. (Len(xs) - 1) : Key(xs[i]) >= Key(xs[i + 1])

NoDuplicates(xs) == \A i, j \in 1 .. Len(xs) : xs[i] = xs[j] => i = j

PosIn(xs, e) == CHOOSE i \in 1 .. Len(xs) : xs[i] = e

RECURSIVE SumBytes(_)
SumBytes(S) ==
  IF S = {} THEN 0
  ELSE LET f == CHOOSE g \in S : TRUE
       IN statted[f].bytes + SumBytes(S \ {f})

\* the files directly inside d whose size lookup succeeded
DirectOk(d) == {f \in Files : dirOf[f] = d /\ statted[f].kind = "ok"}

\* the MB (over the denominator MB) of the files directly inside d
DirectSize(d) == SumBytes(DirectOk(d))

\* the measurements a completed walk has to offer
Qualifying ==
  CASE tool = "counts" ->
         {<<Cardinality({f \in Files : dirOf[f] = d}), d>> : d \in Range(Walk)}
    [] tool = "sizes" ->
         {<<DirectSize(d), d>> : d \in Range(Walk)}
    [] tool = "files" ->
         {<<statted[f].bytes, Join(dirOf[f], f)>> :
            f \in {g \in Files : statted[g].kind = "ok" /\ statted[g].bytes >= MB}}

\* the lists a caller or an iteration boundary can observe
Observed == {Acc} \cup (IF pc \in {"returned", "done"} THEN {result} ELSE {})

----------------------------------------------------------------------------

\* C1: for K >= 1 the final ranked list of each tool holds the K largest
\* qualifying measurements of the whole walk, in descending order: it is
\* sorted, has min(K, offered) distinct offered entries, and no absent offered
\* measurement has a metric strictly greater than a present one; the offered
\* measurements are one per walked directory (counts, sizes) and one per file
\* whose stat succeeded with at least 1 MB (files).
C1_TopK ==
  (pc = "done" /\ K >= 1) =>
    /\ Range(offered) = Qualifying
    /\ Len(offered) = Cardinality(Qualifying)
    /\ IsSortedDesc(result)
    /\ NoDuplicates(result)
    /\ Range(result) \subseteq Range(offered)
    /\ Len(result) = Min(K, Len(offered))
    /\ \A a \in Range(offered) \ Range(result) :
         \A p \in Range(result) : Key(a) <= Key(p)

\* three files under K = 2, the smallest found first: it is evicted
C1_Witness ==
  /\ tool = "files" /\ pc = "done" /\ K = 2 /\ Len(offered) = 3
  /\ Key(offered[1]) < Key(offered[2]) /\ Key(offered[1]) < Key(offered[3])
  /\ result = <<offered[2], offered[3]>>

\* C2: for K >= 1 the accumulator has exactly min(K, measurements offered so
\* far) entries at every iteration boundary, and so has the returned list.
C2_Length ==
  K >= 1 => \A list \in Observed : Len(list) = Min(K, Len(offered))

\* get_dir_sizes after its second directory under K = 1: one entry is kept
C2_Witness ==
  /\ tool = "sizes" /\ pc = "walk" /\ K = 1 /\ Len(offered) = 2
  /\ Len(sizes) = 1

\* C3 as stated: for K >= 1 the accumulator of each of the three functions is
\* sorted non-increasing by metric after every loop iteration, and so is the
\* list each function returns.
C3_SortedAlways ==
  K >= 1 => \A list \in Observed : IsSortedDesc(list)

\* C3 as amended: for K >= 1 counts and sizes are sorted non-increasing after
\* every loop iteration and when returned; files is sorted once it holds
\* max_files entries, and the list get_top_n returns is always sorted.
C3_Sorted ==
  K >= 1 =>
    /\ tool \in {"counts", "sizes"} => \A list \in Observed : IsSortedDesc(list)
    /\ tool = "files" =>
         /\ Len(files) >= K => IsSortedDesc(files)
         /\ pc = "returned" /\ Len(result) >= K => IsSortedDesc(result)
         /\ pc = "done" => IsSortedDesc(result)

\* fewer than K files, found in growing size, ranked by get_top_n
C3_Witness ==
  /\ tool = "files" /\ pc = "done" /\ K = 3 /\ Len(offered) = 2
  /\ Key(offered[1]) < Key(offered[2])
  /\ result = <<offered[2], offered[1]>>

\* C4: for K >= 1, of two offered measurements with equal metric the later is
\* never held without the earlier, and the earlier one is ranked first: in
\* the accumulator at every iteration boundary and in the final result.
C4_TieOrder ==
  K >= 1 =>
    \A list \in Observed :
      \A i, j \in 1 .. Len(offered) :
        (i < j /\ Key(offered[i]) = Key(offered[j])
               /\ offered[j] \in Range(list)) =>
          /\ offered[i] \in Range(list)
          /\ PosIn(list, offered[i]) < PosIn(list, offered[j])

\* three files of the same size under K = 2: the first two stay, in order
C4_Witness ==
  /\ tool = "files" /\ pc = "done" /\ K = 2 /\ Len(offered) = 3
  /\ Key(offered[1]) = Key(offered[2]) /\ Key(offered[2]) = Key(offered[3])
  /\ result = <<offered[1], offered[2]>>

\* C5: a run whose start directory does not exist, or whose K is <= 0, never
\* completes successfully and never traverses a directory.
C5_FailsFast ==
  (~startExists \/ K <= 0) => (pc # "done" /\ walkPos = 0)

\* C6: a size lookup that fails for another reason than a vanished file never
\* ends the scan: the run does not die of it.
C6_ScanSurvives ==
  (\E f \in Files : statted[f].kind = "denied") => pc # "crashed"

\* the files already looked up successfully, in the order of the walk w
OkListing(w) ==
  LET listing == Concat([i \in 1 .. Len(w) |-> Filenames(w[i])])
      IsOk(f) == statted[f].kind = "ok"
  IN SelectSeq(listing, IsOk)

\* find_large_files over a listing of files that are all there
RECURSIVE FilesOf(_)
FilesOf(listing) ==
  IF listing = <<>> THEN <<>>
  ELSE LET f == listing[Len(listing)]
           before == FilesOf(SubSeq(listing, 1, Len(listing) - 1))
       IN FindLargeFilesTrim(
            FindLargeFilesAppend(before, Join(dirOf[f], f), statted[f].bytes), K)

\* get_dir_sizes over the first n directories of the walk w, each measured
\* from the files that are there
RECURSIVE SizesOf(_, _)
SizesOf(w, n) ==
  IF n = 0 THEN <<>>
  ELSE AppendSortTruncate(SizesOf(w, n - 1), <<DirectSize(w[n]), w[n]>>, K)

\* C7: a file that vanished before its size lookup is skipped and nothing
\* else: find_large_files holds what the same walk without the vanished files
\* gives, get_dir_sizes measures each directory from its remaining files and
\* holds what that walk gives, and the run does not die of a vanished file.
C7_VanishedSkipped ==
  /\ tool = "files" =>
       LET expected == FilesOf(OkListing(Walk))
       IN /\ pc # "done" => files = expected
          /\ pc \in {"returned", "done"} => Range(result) \subseteq Range(expected)
  /\ tool = "sizes" =>
       LET w == Walk
       IN /\ sizes = SizesOf(w, Len(offered))
          /\ pc = "inner" => size = DirectSize(root)
          /\ pc = "done" => result = SizesOf(w, Len(w))
  /\ pc = "crashed" => \E f \in Files : statted[f].kind = "denied"

\* a directory whose second file vanished is ranked with the size of the first
C7_Witness ==
  /\ tool = "sizes" /\ pc = "done"
  /\ \E f, g \in Files :
       /\ g < f /\ dirOf[f] = dirOf[g]
       /\ statted[f].kind = "vanished" /\ statted[g].kind = "ok"
       /\ \A h \in Files \ {f, g} : dirOf[h] # dirOf[g]
       /\ <<statted[g].bytes, dirOf[g]>> \in Range(result)

\* the place of e in a list sorted descending, behind the entries equal to it
RefInsert(list, e) ==
  LET n == Cardinality({i \in 1 .. Len(list) : Key(list[i]) >= Key(e)})
  IN SubSeq(list, 1, n) \o <<e>> \o SubSeq(list, n + 1, Len(list))

\* the compare-and-evict selector: insert while fewer than n are held, else
\* evict the tail for a strictly greater metric, else discard
RefOffer(list, e, n) ==
  IF Len(list) < n THEN RefInsert(list, e)
  ELSE IF Key(e) > Key(list[Len(list)])
       THEN RefInsert(SubSeq(list, 1, Len(list) - 1), e)
       ELSE list

RECURSIVE RefRun(_, _)
RefRun(offers, n) ==
  IF offers = <<>> THEN <<>>
  ELSE RefOffer(RefRun(SubSeq(offers, 1, Len(offers) - 1), n),
                offers[Len(offers)], n)

\* C8: for K >= 1 the final list of each tool equals, entry for entry, the
\* list the compare-and-evict selector gives for the same offers.
C8_SameAsSelector ==
  (pc = "done" /\ K >= 1) => result = RefRun(offered, K)

\* get_dir_counts under K = 1: the second directory holds more files than the
\* first and takes its place
C8_Witness ==
  /\ tool = "counts" /\ pc = "done" /\ K = 1 /\ Len(offered) = 2
  /\ Key(offered[2]) > Key(offered[1])
  /\ result = <<offered[2]>>

\* C9: get_dir_sizes offers one measurement per directory the walk yielded,
\* in the order of the walk, and its metric is the sum of the sizes of the
\* files directly inside that directory, 0 when there is none.
C9_DirectSize ==
  tool = "sizes" =>
    LET w == Walk
    IN /\ Len(offered) = (IF pc \in {"inner", "crashed"} THEN walkPos - 1 ELSE walkPos)
       /\ pc = "done" => Len(offered) = Len(w)
       /\ \A i \in 1 .. Len(offered) :
            /\ offered[i][2] = w[i]
            /\ Key(offered[i]) = DirectSize(w[i])
            /\ DirectOk(w[i]) = {} => Key(offered[i]) = 0

\* files of 1 MB and 2 MB directly in the start directory, a 2 MB file in its
\* subdirectory: the start directory measures 3 MB, the subdirectory 2 MB
C9_Witness ==
  /\ tool = "sizes" /\ pc = "done" /\ Len(offered) >= 2
  /\ offered[1] = <<3 * MB, 1>>
  /\ \E f, g, h \in Files :
       /\ dirOf[f] = 1 /\ statted[f] = [kind |-> "ok", bytes |-> MB]
       /\ dirOf[g] = 1 /\ statted[g] = [kind |-> "ok", bytes |-> 2 * MB]
       /\ parent[dirOf[h]] = 1 /\ statted[h] = [kind |-> "ok", bytes |-> 2 * MB]
       /\ <<2 * MB, dirOf[h]>> \in Range(offered)

\* C10: in find_large_files no entry below 1 MB is ever in the accumulator or
\* in a result; looking up a file below 1 MB leaves the accumulator as it was,
\* and a file of exactly 1 MB is appended with metric 1.0.
C10_Floor ==
  [][tool = "files" =>
       /\ \A e \in Range(files') \cup Range(result') : Key(e) >= MB
       /\ \A f \in Files :
            (statted[f] = NoStat /\ statted'[f].kind = "ok") =>
              /\ statted'[f].bytes < MB => files' = files
              /\ statted'[f].bytes = MB =>
                   /\ offered' = Append(offered, <<MB, Join(dirOf[f], f)>>)
                   /\ (K >= 1 /\ Len(files) < K) =>
                        <<MB, Join(dirOf[f], f)>> \in Range(files')]_vars

\* a file just below 1 MB and a file of 1 MB: only the second is ranked
C10_Witness ==
  /\ tool = "files" /\ pc = "done" /\ K = 2
  /\ \E f, g \in Files :
       /\ statted[f] = [kind |-> "ok", bytes |-> MB - 1]
       /\ statted[g] = [kind |-> "ok", bytes |-> MB]
       /\ result = << <<MB, Join(dirOf[g], g)>> >>

====
